---- MODULE Spec2Model ----
(***************************************************************************)
(* Model of the sparse-parameter allocator of Utility/Torch/Sparse:        *)
(* the prune_ and grow_ methods of Gardener.py, which manipulate the       *)
(* backing store, the active/inactive slot partition and the coordinate-   *)
(* format sparse structure (row, col, value) of one sparse parameter.      *)
(*                                                                         *)
(* Tensors are sequences (positions 1..n); slot indices are 0..Capacity-1. *)
(* An Optional argument is <<>> (None) or <<x>>.                           *)
(***************************************************************************)
EXTENDS Integers, Sequences, FiniteSets, TLC

\* ---------------------------------------------------------------- bounds
Capacity == 2          \* number of slots of the backing store
MaxGrow  == 2          \* longest row/col tensor handed to grow_

\* ---------------------------------------------------------------- inputs
Entries    == {<<0, 1, -1>>, <<1, 0, 0>>, <<1, 1, 2>>} \* (row, col, value)
Values     == {e[3] : e \in Entries}      \* weights written by grow_
Thresholds == {-1, 0, 1}                  \* threshold arguments of prune_
Percents   == {-10, 0, 50, 100, 150}      \* percentage arguments of prune_
\* (for these percentages the float product p / 100. * n is exact, so Round
\* below, on the rational p * n / 100, is what Python's round() returns)

None == <<>>
Some(x) == <<x>>
Opt(S) == {None} \cup {Some(x) : x \in S}

Slots == 0 .. (Capacity - 1)

VARIABLES
    backend,                  \* self.backend: slot -> weight
    active_index,             \* self.active_index: tensor of slots
    inactive_index,           \* self.inactive_index: tensor of slots
    sparse,                   \* self.sparse: None or <<[row, col, value]>>
    suppressing_grow_warning, \* self.suppressing_grow_warning
    call,                     \* the last call: the method, its threshold
                              \* (prune_), its request length and
                              \* discard_unused (grow_), the inactive
                              \* count m it found, and whether it
                              \* repeats the threshold prune before it
    result,                   \* what the last call returned or raised
    warning                   \* whether the last call emitted the
                              \* RuntimeWarning of grow_

state == <<backend, active_index, inactive_index, sparse,
           suppressing_grow_warning>>
vars == <<backend, active_index, inactive_index, sparse,
          suppressing_grow_warning, call, result, warning>>

\* ---------------------------------------------------------------- helpers
Abs(x) == IF x < 0 THEN -x ELSE x

Max(a, b) == IF a >= b THEN a ELSE b

Range(s) == {s[i] : i \in 1 .. Len(s)}

SeqsUpTo(S, n) == UNION {[1 .. k -> S] : k \in 0 .. n}

\* tensor[:k]
Take(s, k) == SubSeq(s, 1, IF k < Len(s) THEN k ELSE Len(s))

\* tensor[k:]
Drop(s, k) == SubSeq(s, (IF k < Len(s) THEN k ELSE Len(s)) + 1, Len(s))

\* tensor[indices]: gather by a tensor of positions
Gather(s, indices) == [i \in 1 .. Len(indices) |-> s[indices[i]]]

\* torch.full([n], v)
Full(n, v) == [i \in 1 .. n |-> v]

\* Python round() of the non-negative rational num/den: half to even
Round(num, den) ==
    LET q == num \div den
        r == num % den
    IN  IF 2 * r < den THEN q
        ELSE IF 2 * r > den THEN q + 1
        ELSE IF q % 2 = 0 THEN q ELSE q + 1

\* torch.argsort(torch.abs(value)): every permutation of the positions that
\* puts the magnitudes in ascending order (the sort is not stable, so the
\* order of equal magnitudes is any)
Argsort(value) ==
    {p \in [1 .. Len(value) -> 1 .. Len(value)] :
        /\ \A i, j \in 1 .. Len(value) : i # j => p[i] # p[j]
        /\ \A i \in 1 .. Len(value) - 1 :
              Abs(value[p[i]]) <= Abs(value[p[i + 1]])}

\* torch_sparse.SparseTensor(row=, col=, value=): the three sequences, held
\* positionally, in the order given (the contract the design states for the
\* coordinate-structure backend)
SparseTensor(row, col, value) == <<[row |-> row, col |-> col, value |-> value]>>

\* the inactive count and the capacity, as the parameter reports them
total_inactive == Len(inactive_index)

total_param_space == Capacity

\* ---------------------------------------------------------------- Init
Init ==
    /\ backend = [s \in Slots |-> 0]
    /\ active_index = <<>>
    /\ inactive_index = [i \in 1 .. Capacity |-> i - 1]
    /\ sparse = None
    /\ suppressing_grow_warning = FALSE
    /\ call = [op |-> "init", threshold |-> None, n |-> 0,
               discard_unused |-> FALSE, m |-> Capacity, again |-> FALSE]
    /\ result = "init"
    /\ warning = FALSE

\* ---------------------------------------------------------------- prune_
\* the assertions with "rel_percentage and abs_percentage cannot both be
\* active" left out
PruneAssertsPassNoRelAbs(threshold, rel_percentage, abs_percentage) ==
    /\ threshold # None =>
          /\ threshold[1] >= 0
          /\ rel_percentage = None
          /\ abs_percentage = None
    /\ rel_percentage # None =>
          /\ 100 >= rel_percentage[1] /\ rel_percentage[1] >= 0
          /\ threshold = None
    /\ abs_percentage # None =>
          /\ 100 >= abs_percentage[1] /\ abs_percentage[1] >= 0
          /\ threshold = None
          /\ rel_percentage # None

\* the assertions that open prune_; TRUE when none of them fires
PruneAssertsPass(threshold, rel_percentage, abs_percentage) ==
    /\ threshold # None =>
          /\ threshold[1] >= 0
          /\ rel_percentage = None
          /\ abs_percentage = None
    /\ rel_percentage # None =>
          /\ 100 >= rel_percentage[1] /\ rel_percentage[1] >= 0
          /\ threshold = None
          /\ abs_percentage = None
    /\ abs_percentage # None =>
          /\ 100 >= abs_percentage[1] /\ abs_percentage[1] >= 0
          /\ threshold = None
          /\ rel_percentage # None

\* the count of the passing values taken for the count of the failing ones
NumFailedThresholdSum(value, threshold) ==
    Cardinality({i \in 1 .. Len(value) : Abs(value[i]) > threshold})

\* threshold_result = torch.abs(value) > threshold ; numel() - sum()
NumFailedThreshold(value, threshold) ==
    LET threshold_result == [i \in 1 .. Len(value) |-> Abs(value[i]) > threshold]
        numel == Len(value)
        sum   == Cardinality({i \in 1 .. Len(value) : threshold_result[i]})
    IN  numel - sum

\* round(rel_percentage / 100. * value.shape[0])
NumFailedRel(value, rel_percentage) == Round(rel_percentage * Len(value), 100)

\* max(round(abs_percentage / 100. * total_param_space) - total_inactive, 0)
NumFailedAbs(abs_percentage) ==
    LET num_required_inactive == Round(abs_percentage * total_param_space, 100)
        diff == num_required_inactive - total_inactive
    IN  Max(diff, 0)

\* the mode selection; "RuntimeError" when no mode is given
NumFailed(value, threshold, rel_percentage, abs_percentage) ==
    IF rel_percentage # None THEN NumFailedRel(value, rel_percentage[1])
    ELSE IF threshold # None THEN NumFailedThreshold(value, threshold[1])
    ELSE IF abs_percentage # None THEN NumFailedAbs(abs_percentage[1])
    ELSE "RuntimeError"

\* the failing slots go to the head of the inactive sequence
PruneInactivePrepend(inactive, active_param_fail) == active_param_fail \o inactive

\* the failing slots overwrite the inactive sequence
PruneInactiveOverwrite(inactive, active_param_fail) == active_param_fail

\* self.inactive_index after a prune
PruneInactive(inactive, active_param_fail) == inactive \o active_param_fail

Raise(error) ==
    /\ result' = error
    /\ warning' = FALSE
    /\ UNCHANGED state

prune_(threshold, rel_percentage, abs_percentage) ==
    /\ call' = [op |-> "prune", threshold |-> threshold, n |-> 0,
                discard_unused |-> FALSE, m |-> total_inactive,
                again |-> /\ threshold # None
                          /\ call.op = "prune"
                          /\ call.threshold = threshold
                          /\ result = "None"]
    /\ IF ~PruneAssertsPass(threshold, rel_percentage, abs_percentage)
       THEN Raise("AssertionError")
       ELSE IF sparse = None
       THEN Raise("AttributeError")
       ELSE IF threshold = None /\ rel_percentage = None /\ abs_percentage = None
       THEN Raise("RuntimeError")
       ELSE
         LET value == sparse[1].value
             row   == sparse[1].row
             col   == sparse[1].col
             num_failed == NumFailed(value, threshold, rel_percentage,
                                     abs_percentage)
         IN  \E sorted_results \in Argsort(value) :
               LET failed_indices == Take(sorted_results, num_failed)
                   passed_indices == Drop(sorted_results, num_failed)
                   active_param_pass == Gather(active_index, passed_indices)
                   active_param_fail == Gather(active_index, failed_indices)
               IN  /\ active_index' = active_param_pass
                   /\ inactive_index' =
                          PruneInactive(inactive_index, active_param_fail)
                   /\ sparse' = SparseTensor(Gather(row, passed_indices),
                                             Gather(col, passed_indices),
                                             Gather(value, passed_indices))
                   /\ result' = "None"
                   /\ warning' = FALSE
                   /\ UNCHANGED <<backend, suppressing_grow_warning>>

\* ---------------------------------------------------------------- grow_
\* discard_unused ignored: every request that is too long is truncated
CapacityCheckAlwaysDiscard(sparse_length, inactive, discard_unused) ==
    IF sparse_length > inactive THEN "truncate" ELSE "fit"

\* the branch grow_ takes on the request length: "fit", "truncate", "raise"
CapacityCheck(sparse_length, inactive, discard_unused) ==
    IF sparse_length > inactive
    THEN IF discard_unused THEN "truncate" ELSE "raise"
    ELSE "fit"

\* the flag is never set
SuppressAfterNever(check, suppressing) == suppressing

\* warnings.warn(message, RuntimeWarning) is reached: the request is
\* truncated and the flag is still False
Warns(check, suppressing) == check = "truncate" /\ suppressing = FALSE

\* self.suppressing_grow_warning after the capacity branch
SuppressAfter(check, suppressing) ==
    IF check = "truncate" THEN TRUE ELSE suppressing

\* the request is not cut
TruncateNothing(tensor, inactive) == tensor

\* value[:self.total_inactive] (and row, col)
Truncate(tensor, inactive) == Take(tensor, inactive)

\* the head slot of the inactive sequence handed out for every entry
NewlyActiveHeadOnly(inactive, length) ==
    [i \in 1 .. (IF length < Len(inactive) THEN length ELSE Len(inactive)) |->
        inactive[1]]

\* the head and the rest of the inactive sequence
NewlyActive(inactive, length) == Take(inactive, length)

RemainingInactive(inactive, length) == Drop(inactive, length)

\* the requested values are not written: the slots keep what they held
BackendWriteNothing(store, newly_active, value) == store

\* self.backend[newly_active] = value
BackendWrite(store, newly_active, value) ==
    [s \in Slots |->
        IF \E i \in 1 .. Len(newly_active) : newly_active[i] = s
        THEN value[CHOOSE i \in 1 .. Len(newly_active) :
                       /\ newly_active[i] = s
                       /\ \A j \in 1 .. Len(newly_active) :
                             newly_active[j] = s => j <= i]
        ELSE store[s]]

\* the closing comparison of grow_, made after the partition is updated
GrowReturn(sparse_length, inactive_after) ==
    IF sparse_length > inactive_after THEN "False" ELSE "True"

\* isinstance(value, (int, float)) -> torch.full([sparse_length], value);
\* a float argument is [kind |-> "float", v |-> <<x>>], a 1-d tensor is
\* [kind |-> "tensor", v |-> the sequence]
AsTensor(value, sparse_length) ==
    IF value.kind = "float" THEN Full(sparse_length, value.v[1]) ELSE value.v

grow_(row, col, value, discard_unused) ==
    /\ call' = [op |-> "grow", threshold |-> None, n |-> Len(row),
                discard_unused |-> discard_unused, m |-> total_inactive,
                again |-> FALSE]
    /\ IF Len(row) # Len(col)
       THEN Raise("AssertionError")
       ELSE IF Len(AsTensor(value, Len(row))) # Len(row)
       THEN Raise("AssertionError")
       ELSE
         LET check == CapacityCheck(Len(row), total_inactive, discard_unused)
         IN  IF check = "raise"
             THEN Raise("IndexError")
             ELSE
               LET value1 == AsTensor(value, Len(row))
                   value2 == IF check = "truncate"
                             THEN Truncate(value1, total_inactive) ELSE value1
                   row2   == IF check = "truncate"
                             THEN Truncate(row, total_inactive) ELSE row
                   col2   == IF check = "truncate"
                             THEN Truncate(col, total_inactive) ELSE col
                   sparse_length == IF check = "truncate"
                                    THEN total_inactive ELSE Len(row)
                   newly_active == NewlyActive(inactive_index, sparse_length)
                   remaining_inactive ==
                       RemainingInactive(inactive_index, sparse_length)
                   store == BackendWrite(backend, newly_active, value2)
                   value3 == [i \in 1 .. Len(newly_active) |->
                                 store[newly_active[i]]]
               IN  /\ warning' = Warns(check, suppressing_grow_warning)
                   /\ suppressing_grow_warning' =
                          SuppressAfter(check, suppressing_grow_warning)
                   /\ active_index' = active_index \o newly_active
                   /\ inactive_index' = remaining_inactive
                   /\ backend' = store
                   /\ sparse' =
                        IF sparse # None
                        THEN SparseTensor(sparse[1].row \o row2,
                                          sparse[1].col \o col2,
                                          sparse[1].value \o value3)
                        ELSE SparseTensor(row2, col2, value3)
                   /\ result' = GrowReturn(sparse_length, Len(remaining_inactive))

\* ---------------------------------------------------------------- inputs
\* well-formed requests: the entries with one weight each, or entries at
\* one coordinate with the default scalar weight 0
GrowTensorArgs ==
    {[row   |-> [i \in 1 .. Len(es) |-> es[i][1]],
      col   |-> [i \in 1 .. Len(es) |-> es[i][2]],
      value |-> [kind |-> "tensor", v |-> [i \in 1 .. Len(es) |-> es[i][3]]]] :
        es \in SeqsUpTo(Entries, MaxGrow)}

GrowScalarArgs ==
    {[row   |-> Full(k, 1), col |-> Full(k, 1),
      value |-> [kind |-> "float", v |-> <<0>>]] : k \in 0 .. MaxGrow}

\* malformed requests: col shorter than row, or value longer than row
GrowBadArgs ==
    {[row |-> a.row, col |-> Tail(a.col), value |-> a.value] :
        a \in {b \in GrowScalarArgs : Len(b.row) > 0}}
    \cup
    {[row |-> a.row, col |-> a.col,
      value |-> [kind |-> "tensor", v |-> Full(Len(a.row) + 1, 0)]] :
        a \in GrowScalarArgs}

GrowArgs == GrowTensorArgs \cup GrowScalarArgs \cup GrowBadArgs

\* the argument combinations of prune_: each mode alone with every value,
\* no mode at all, and every combination of two or three modes
PruneArgs ==
    {<<t, None, None>> : t \in Opt(Thresholds)}
    \cup {<<None, r, None>> : r \in Opt(Percents)}
    \cup {<<None, None, a>> : a \in Opt(Percents)}
    \cup {<<t, r, a>> : t \in {None, Some(1)}, r \in {None, Some(50)},
                       a \in {None, Some(50)}}

Prune ==
    \E args \in PruneArgs : prune_(args[1], args[2], args[3])

Grow ==
    \E a \in GrowArgs, discard_unused \in BOOLEAN :
        grow_(a.row, a.col, a.value, discard_unused)

Next == Prune \/ Grow

Spec == Init /\ [][Next]_vars

\* ---------------------------------------------------------------- types
TypeOK ==
    /\ backend \in [Slots -> Values \cup {0}]
    /\ Range(active_index) \subseteq Slots
    /\ Range(inactive_index) \subseteq Slots
    /\ suppressing_grow_warning \in BOOLEAN
    /\ result \in {"init", "None", "True", "False", "AssertionError",
                   "IndexError", "RuntimeError", "AttributeError"}
    /\ warning \in BOOLEAN

\* ---------------------------------------------------------------- claims
\* a request grow_ accepts the shape of
GrowGoodArgs == GrowTensorArgs \cup GrowScalarArgs

\* C1: after every sequence of prune and grow calls, successful or failing,
\* len(active_index) + len(inactive_index) is the capacity.
C1_CapacityConservation ==
    Len(active_index) + Len(inactive_index) = Capacity

\* a prune has appended a slot to the inactive sequence after a truncated grow
C1_Witness ==
    /\ call.op = "prune" /\ result = "None"
    /\ suppressing_grow_warning
    /\ active_index # <<>>
    /\ inactive_index # <<>>
    /\ inactive_index[Len(inactive_index)] # Capacity - 1

\* C2: every slot occurs exactly once in active_index and inactive_index
\* together: no slot is in both, none twice, none missing.
C2_Partition ==
    LET all == active_index \o inactive_index
    IN  /\ Range(all) \subseteq Slots
        /\ \A s \in Slots : Cardinality({i \in 1 .. Len(all) : all[i] = s}) = 1

\* a grow has returned with every slot active and active_index no longer in
\* slot order: prunes and grows have permuted the partition
C2_Witness ==
    /\ call.op = "grow" /\ result \in {"True", "False"}
    /\ Len(active_index) = Capacity
    /\ active_index # [i \in 1 .. Capacity |-> i - 1]

\* C3: once a prune or grow has returned, row, col and value have the same
\* length, which is len(active_index).
C3_StructureLength ==
    /\ result \in {"None", "True", "False"} => sparse # None
    /\ sparse # None =>
          /\ Len(sparse[1].row) = Len(active_index)
          /\ Len(sparse[1].col) = Len(active_index)
          /\ Len(sparse[1].value) = Len(active_index)

\* a grow that was truncated to fewer entries than it asked for, on top of
\* connections that were already active
C3_Witness ==
    /\ call.op = "grow" /\ result \in {"True", "False"}
    /\ call.n > call.m /\ call.m > 0
    /\ call.m < Capacity
    /\ sparse # None
    /\ Len(sparse[1].value) = Capacity

\* C4: grow returns true exactly when the request fitted the inactive slots
\* (n <= m), also when n = m and when n > m/2.
C4_ReturnsTrueIffFits ==
    [][\A a \in GrowGoodArgs, d \in BOOLEAN :
          (grow_(a.row, a.col, a.value, d) /\ result' \in {"True", "False"})
          => (result' = "True" <=> Len(a.row) <= total_inactive)]_vars

\* C5: a request of n > m entries with discard_unused activates the first m
\* of them, empties the inactive sequence, returns false and keeps the
\* capacity, for every m >= 0.
C5_Truncation ==
    [][\A a \in GrowGoodArgs :
          (Len(a.row) > total_inactive /\ grow_(a.row, a.col, a.value, TRUE))
          => /\ Len(active_index') = Len(active_index) + total_inactive
             /\ Len(inactive_index') = 0
             /\ Len(active_index') + Len(inactive_index') = Capacity
             /\ sparse' # None
             /\ Len(sparse'[1].row) = Len(active_index')
             /\ \A i \in 1 .. total_inactive :
                   sparse'[1].row[Len(active_index) + i] = a.row[i]
             /\ result' = "False"]_vars

\* C6: a request of n > m entries without discard_unused raises and changes
\* neither the partition, the backing store, the sparse structure nor the
\* warning flag.
C6_GrowAtomicity ==
    [][\A a \in GrowGoodArgs :
          (Len(a.row) > total_inactive /\ grow_(a.row, a.col, a.value, FALSE))
          => (result' = "IndexError" /\ UNCHANGED state)]_vars

\* a refused grow on a parameter that holds active connections
C6_Witness ==
    /\ call.op = "grow" /\ result = "IndexError"
    /\ ~call.discard_unused
    /\ call.n > call.m
    /\ active_index # <<>>
    /\ inactive_index # <<>>

\* C7: prune with abs_percentage = X alone succeeds and deactivates
\* max(0, round(X/100 * capacity) - inactive count) connections, never
\* re-activating a slot.
C7_AbsPercentage ==
    [][\A x \in {p \in Percents : 0 <= p /\ p <= 100} :
          (sparse # None /\ prune_(None, None, Some(x)))
          => /\ result' = "None"
             /\ Len(inactive_index') = Len(inactive_index)
                    + Max(Round(x * Capacity, 100) - Len(inactive_index), 0)
             /\ Range(inactive_index) \subseteq Range(inactive_index')]_vars

\* the configurations prune must reject: not exactly one mode, a negative
\* threshold, a percentage outside [0, 100]
InvalidPruneConfig(threshold, rel_percentage, abs_percentage) ==
    \/ Cardinality({i \in 1 .. 3 :
           <<threshold, rel_percentage, abs_percentage>>[i] # None}) # 1
    \/ threshold # None /\ threshold[1] < 0
    \/ rel_percentage # None /\ (rel_percentage[1] < 0 \/ rel_percentage[1] > 100)
    \/ abs_percentage # None /\ (abs_percentage[1] < 0 \/ abs_percentage[1] > 100)

\* C8: every invalid prune configuration raises and leaves the partition and
\* the sparse structure as they were.
C8_InvalidPruneRejected ==
    [][\A args \in PruneArgs :
          (/\ InvalidPruneConfig(args[1], args[2], args[3])
           /\ prune_(args[1], args[2], args[3]))
          => /\ result' \in {"AssertionError", "RuntimeError", "AttributeError"}
             /\ UNCHANGED state]_vars

\* a negative threshold refused on a parameter that holds active connections
C8_Witness ==
    /\ call.op = "prune" /\ result = "AssertionError"
    /\ call.threshold # None
    /\ call.threshold[1] < 0
    /\ sparse # None
    /\ active_index # <<>>

\* C9: prune with threshold t deactivates the active connections of
\* magnitude strictly below t and keeps those of magnitude t or more.
C9_ThresholdStrict ==
    [][\A t \in {u \in Thresholds : u >= 0} :
          (sparse # None /\ prune_(Some(t), None, None))
          => \A i \in 1 .. Len(active_index) :
                /\ Abs(sparse[1].value[i]) < t
                      => active_index[i] \in Range(inactive_index')
                /\ Abs(sparse[1].value[i]) >= t
                      => active_index[i] \in Range(active_index')]_vars

\* C10: a second prune with the same threshold, no call in between,
\* deactivates nothing: the active set stays as the first call left it.
C10_ThresholdIdempotent ==
    [][\A t \in Thresholds :
          (/\ call.op = "prune" /\ call.threshold = Some(t) /\ result = "None"
           /\ prune_(Some(t), None, None))
          => /\ result' = "None"
             /\ Range(active_index') = Range(active_index)
             /\ inactive_index' = inactive_index]_vars

\* the second of two equal threshold prunes has returned, the first having
\* deactivated some connections and kept others
C10_Witness ==
    /\ call.op = "prune" /\ call.again /\ result = "None"
    /\ active_index # <<>>
    /\ inactive_index # <<>>
    /\ inactive_index[Len(inactive_index)] # Capacity - 1

\* the position of slot s in a tensor of distinct slots
Pos(index, s) == CHOOSE i \in 1 .. Len(index) : index[i] = s

\* the last call was a prune that returned / a grow that returned
Pruned == call.op = "prune" /\ result = "None"

Grown == call.op = "grow" /\ result \in {"True", "False"}

\* C12: the truncation warning is emitted at most once: a truncating grow
\* emits it exactly when the flag is still clear and leaves the flag set, no
\* other call emits it, and no prune or grow clears the flag.
C12_WarningOnce ==
    [][/\ warning' => (~suppressing_grow_warning /\ suppressing_grow_warning')
       /\ suppressing_grow_warning => suppressing_grow_warning'
       /\ (Grown' /\ call'.discard_unused /\ call'.n > call'.m)
             => /\ warning' = ~suppressing_grow_warning
                /\ suppressing_grow_warning']_vars

\* a later truncating grow has returned without a warning, after a prune
\* had made room and a grow had used it
C12_Witness ==
    /\ call.op = "grow" /\ call.discard_unused
    /\ call.n > call.m /\ call.m > 0
    /\ result \in {"True", "False"}
    /\ suppressing_grow_warning
    /\ ~warning
    /\ active_index # [i \in 1 .. Len(active_index) |-> i - 1]

\* C13: prune keeps the survivors in the order they had: two connections
\* active before and after a prune keep their relative order, and a prune
\* that cuts nothing leaves active_index and the sparse structure as they
\* were.
C13_PruneKeepsOrder ==
    [][Pruned' =>
          /\ \A i, j \in 1 .. Len(active_index') :
                i < j => Pos(active_index, active_index'[i])
                            < Pos(active_index, active_index'[j])
          /\ Len(active_index') = Len(active_index)
                => (active_index' = active_index /\ sparse' = sparse)]_vars

\* C14: slots are reused first in, first out: a prune keeps the inactive
\* sequence as its head and appends the slots it deactivates, and a grow
\* takes its slots off the head of the inactive sequence and appends them,
\* in that order, to active_index.
C14_FifoReuse ==
    [][/\ Pruned' =>
             /\ Len(inactive_index') >= Len(inactive_index)
             /\ Take(inactive_index', Len(inactive_index)) = inactive_index
             /\ Range(Drop(inactive_index', Len(inactive_index)))
                   \subseteq Range(active_index)
       /\ Grown' =>
             \E k \in 0 .. Len(inactive_index) :
                /\ active_index' = active_index \o Take(inactive_index, k)
                /\ inactive_index' = Drop(inactive_index, k)]_vars

\* a grow has taken the slot that was inactive all along and left the
\* slot a prune had deactivated for later
C14_Witness ==
    /\ Grown
    /\ call.n > 0 /\ call.m > 1
    /\ inactive_index # <<>>
    /\ inactive_index[Len(inactive_index)] # Capacity - 1
    /\ active_index # <<>>
    /\ active_index[Len(active_index)] # 0

\* what C15 says of a grow step that was given the request a
GrowKeepsRequest(a) ==
    LET old == Len(active_index)
        k   == Len(active_index') - old
        requested == AsTensor(a.value, Len(a.row))
    IN  /\ \A i \in 1 .. k :
              /\ sparse'[1].row[old + i] = a.row[i]
              /\ sparse'[1].col[old + i] = a.col[i]
              /\ sparse'[1].value[old + i] = requested[i]
              /\ backend'[active_index'[old + i]] = requested[i]
        /\ \A i \in 1 .. old :
              sparse # None =>
                 /\ sparse'[1].row[i] = sparse[1].row[i]
                 /\ sparse'[1].col[i] = sparse[1].col[i]
                 /\ sparse'[1].value[i] = sparse[1].value[i]
        /\ \A s \in Slots \ Range(SubSeq(active_index', old + 1, old + k)) :
              backend'[s] = backend[s]

\* what C15 says of a prune step
PruneKeepsTriples ==
    /\ backend' = backend
    /\ (Pruned' /\ sparse # None) =>
          \A i \in 1 .. Len(active_index') :
             LET j == Pos(active_index, active_index'[i])
             IN  /\ sparse'[1].row[i] = sparse[1].row[j]
                 /\ sparse'[1].col[i] = sparse[1].col[j]
                 /\ sparse'[1].value[i] = sparse[1].value[j]

====
